---- MODULE Spec2Model ----
(***************************************************************************)
(* Model of folder_data_extract.py: the table merger                       *)
(* (extract_tables_from_pdf), the GPA normalizer (extract_gpa and its      *)
(* _standardize_gpa), the aggregator (get_grad_postgrad_data) and the      *)
(* batch loop (main).                                                      *)
(*                                                                         *)
(* Conventions.                                                            *)
(*  - A text is a sequence of tokens: a digit, ".", "/", a blank and a     *)
(*    line break are one token each, a word is one token.                  *)
(*  - A number is an exact fraction <<n, d>> in lowest terms, d > 0; the   *)
(*    rounding of Python's binary floats is not modelled.                  *)
(*  - A cell is a record [t, s, v]: t = "str" (text s), "float" (number    *)
(*    v) or "nan" (pandas' missing value).                                 *)
(*  - A call's outcome is a record [exc, val]: exc = "none" when the call  *)
(*    returns val, the exception's name when it raises.                    *)
(***************************************************************************)
EXTENDS Integers, Sequences, FiniteSets, TLC

VARIABLES pc, arg, ret, nfiles, idx, log, all_results, csv

vars == <<pc, arg, ret, nfiles, idx, log, all_results, csv>>

(***************************************************************************)
(* Bounds of the checked instances.                                        *)
(***************************************************************************)
MaxLen == 5
MaxTables == 3
MaxRows == 3
MaxPartRows == 2
MaxFiles == 3

(***************************************************************************)
(* Numbers.                                                                *)
(***************************************************************************)
RECURSIVE Gcd(_, _)
Gcd(a, b) == IF b = 0 THEN a ELSE Gcd(b, a % b)

Abs(n) == IF n < 0 THEN -n ELSE n

\* n/d in lowest terms, d > 0 required
Frac(n, d) == <<n \div Gcd(Abs(n), d), d \div Gcd(Abs(n), d)>>

Zero == <<0, 1>>
Four == <<4, 1>>

FracDiv(a, b) == Frac(a[1] * b[2], a[2] * b[1])
FracMul(a, b) == Frac(a[1] * b[1], a[2] * b[2])
FracAdd(a, b) == Frac(a[1] * b[2] + b[1] * a[2], a[2] * b[2])
FracLe(a, b) == a[1] * b[2] <= b[1] * a[2]

(***************************************************************************)
(* Cells and call outcomes.                                                *)
(***************************************************************************)
Str(s) == [t |-> "str", s |-> s, v |-> Zero]
Float(v) == [t |-> "float", s |-> <<>>, v |-> v]
NaN == [t |-> "nan", s |-> <<>>, v |-> Zero]

Return(val) == [exc |-> "none", val |-> val]
Raise(exc) == [exc |-> exc, val |-> NaN]

(***************************************************************************)
(* Tokens, as the regular expression of _standardize_gpa classifies them.  *)
(***************************************************************************)
Digits == <<"0", "1", "2", "3", "4", "5", "6", "7", "8", "9">>

IsDigit(t) == \E i \in 1..10 : Digits[i] = t
DigitVal(t) == (CHOOSE i \in 1..10 : Digits[i] = t) - 1
IsWs(t) == t \in {" ", "\n"}
\* re.IGNORECASE
IsOut(t) == t \in {"out", "Out", "OUT"}
IsOf(t) == t \in {"of", "Of", "OF"}

At(s, i) == IF i >= 1 /\ i <= Len(s) THEN s[i] ELSE ""

\* the first position >= i of s that holds no digit (\d* and \d+, greedy)
RECURSIVE SkipDigits(_, _)
SkipDigits(s, i) == IF IsDigit(At(s, i)) THEN SkipDigits(s, i + 1) ELSE i

\* the first position >= i of s that holds no white space (\s*, \n*)
RECURSIVE SkipWs(_, _)
SkipWs(s, i) == IF IsWs(At(s, i)) THEN SkipWs(s, i + 1) ELSE i

\* \.?\d* from position p, greedy: the position after it
FractionEnd(s, p) == IF At(s, p) = "." THEN SkipDigits(s, p + 1) ELSE p

\* (\d+\.?\d*) from position i, greedy: the position after it, 0 when s[i] is
\* no digit
NumberEnd(s, i) ==
  IF ~IsDigit(At(s, i)) THEN 0 ELSE FractionEnd(s, SkipDigits(s, i))

\* \s+of\s*\n* from position from, x the first position after its white space
OfEnd(s, from, x) == IF x > from /\ IsOf(At(s, x)) THEN SkipWs(s, x + 1) ELSE 0

\* (?:\n*\s*out\s+of\s*\n*|/) at position w, white space skipped
SeparatorAt(s, w) ==
  IF IsOut(At(s, w)) THEN OfEnd(s, w + 1, SkipWs(s, w + 1))
  ELSE IF At(s, w) = "/" THEN w + 1 ELSE 0

\* \s*(?:\n*\s*out\s+of\s*\n*|/) from position e: the position after it, 0
\* when it does not match
SeparatorEnd(s, e) == SeparatorAt(s, SkipWs(s, e))

NoMatch == [ok |-> FALSE, g1 |-> <<0, 0>>, g2 |-> <<0, 0>>]

\* the match object: group 1 is s[i..e1-1], group 2 is s[j..e2-1]
Groups(i, e1, j, e2) ==
  IF e2 = 0 THEN NoMatch ELSE [ok |-> TRUE, g1 |-> <<i, e1>>, g2 |-> <<j, e2>>]

\* the pattern after group 1, which ends before e1, and after the separator,
\* which ends before j
AfterSeparator(s, i, e1, j) ==
  IF j = 0 THEN NoMatch ELSE Groups(i, e1, j, NumberEnd(s, j))
AfterGroup1(s, i, e1) ==
  IF e1 = 0 THEN NoMatch ELSE AfterSeparator(s, i, e1, SeparatorEnd(s, e1))

\* the whole pattern anchored at position i.  What follows group 1 is neither
\* a digit nor a ".", so backtracking into group 1 never helps and its greedy
\* end is the only candidate.
MatchAt(s, i) == AfterGroup1(s, i, NumberEnd(s, i))

\* re.search: the match at the leftmost position that has one
Leftmost(s, starts) ==
  IF starts = {} THEN NoMatch
  ELSE MatchAt(s, CHOOSE i \in starts : \A k \in starts : i <= k)
Search(s) == Leftmost(s, {i \in 1..Len(s) : MatchAt(s, i).ok})

\* float() of s[from..to-1], a text of the shape \d+\.?\d*
RECURSIVE ParseFloat(_, _, _, _, _)
ParseFloat(s, from, to, n, d) ==
  IF from >= to THEN Frac(n, IF d = 0 THEN 1 ELSE d)
  ELSE IF s[from] = "." THEN ParseFloat(s, from + 1, to, n, 1)
  ELSE ParseFloat(s, from + 1, to, n * 10 + DigitVal(s[from]), d * 10)

ToFloat(s, g) == ParseFloat(s, g[1], g[2], 0, 0)

\* a / b of two floats
TrueDiv(a, b) == IF b = Zero THEN Raise("ZeroDivisionError") ELSE Return(FracDiv(a, b))

\* quotient * 4, where the division may have raised
Times4(quotient) ==
  IF quotient.exc # "none" THEN Raise(quotient.exc)
  ELSE Return(Float(FracMul(quotient.val, Four)))

\* lines 55-56: (gpa / scale) * 4 if scale != 4 else gpa
Rescale(gpa, scale) ==
  IF scale # Four THEN Times4(TrueDiv(gpa, scale)) ELSE Return(Float(gpa))

\* lines 54-57, on the result of re.search
OnMatch(s, match) ==
  IF match.ok THEN Rescale(ToFloat(s, match.g1), ToFloat(s, match.g2))
  ELSE Return(NaN)

\* _standardize_gpa(value), lines 50-57
_standardize_gpa(value) ==
  IF value.t = "float" THEN Return(value) ELSE OnMatch(value.s, Search(value.s))

\* str(n) of a natural number
RECURSIVE NatStr(_)
NatStr(n) == IF n < 10 THEN <<Digits[n + 1]>>
             ELSE Append(NatStr(n \div 10), Digits[(n % 10) + 1])

\* str(x) of a float x >= 0 with at most one decimal place: "3.9", "4.0"
FloatStr(v) ==
  NatStr((v[1] * 10) \div (v[2] * 10))
    \o <<".", Digits[(((v[1] * 10) \div v[2]) % 10) + 1]>>

\* Series.astype(str) on one cell
astype_str(cell) ==
  IF cell.t = "float" THEN Str(FloatStr(cell.v))
  ELSE IF cell.t = "nan" THEN Str(<<"nan">>)
  ELSE cell

(***************************************************************************)
(* Tables: cols is the sequence of column labels, rows the sequence of     *)
(* rows, each row a function from the labels to cells.                     *)
(***************************************************************************)
Table(cols, rows) == [cols |-> cols, rows |-> rows]

Range(f) == {f[i] : i \in DOMAIN f}

\* df.columns as a set
columns(df) == Range(df.cols)

\* df[column_name].dtype: float64 when every value is a float or missing,
\* object otherwise
dtype(df, column_name) ==
  IF df.rows # <<>> /\ \A i \in DOMAIN df.rows : df.rows[i][column_name].t \in {"float", "nan"}
  THEN "float64" ELSE "object"

\* lines 59-61: the column replaced by the outcomes of Series.apply, or the
\* first exception among them
Applied(df, column_name, out) ==
  IF \E i \in DOMAIN out : out[i].exc # "none"
  THEN Raise(out[CHOOSE i \in DOMAIN out :
                   out[i].exc # "none" /\ \A k \in 1..(i - 1) : out[k].exc = "none"].exc)
  ELSE Return(Table(df.cols,
         [i \in DOMAIN df.rows |-> [df.rows[i] EXCEPT ![column_name] = out[i].val]]))

\* extract_gpa(df, column_name), lines 44-61
extract_gpa(df, column_name) ==
  IF column_name \notin columns(df) \/ dtype(df, column_name) = "float64"
  THEN Return(df)
  ELSE Applied(df, column_name,
         [i \in DOMAIN df.rows |-> _standardize_gpa(astype_str(df.rows[i][column_name]))])

(***************************************************************************)
(* Table merger.  A table mapping (table_dfs, tables_dict) is a function   *)
(* from the numbers i of its keys "table_i" to tables.                     *)
(***************************************************************************)
\* pd.concat([a, b]) of two tables with the same column labels: the columns
\* keep a's order, the cells are aligned by label
concat(a, b) == Table(a.cols, a.rows \o b.rows)

\* lines 20-41, on the mapping the loop of lines 17-18 built
MergeSecond(table_dfs) ==
  IF 1 \notin DOMAIN table_dfs \/ 2 \notin DOMAIN table_dfs
  THEN Raise("KeyError")
  ELSE IF columns(table_dfs[1]) = columns(table_dfs[2])
  THEN Return([table_dfs EXCEPT ![1] = concat(table_dfs[1], table_dfs[2])])
  ELSE Return(table_dfs)

\* extract_tables_from_pdf, lines 11-41, on the list tabula.read_pdf returned
extract_tables_from_pdf(tables) == MergeSecond([i \in 1..Len(tables) |-> tables[i]])

(***************************************************************************)
(* Aggregator.                                                             *)
(***************************************************************************)
LevelCol == "Level"
InstCol == "Name of\rInstitution"
ResultCol == "Result"
Graduation == Str(<<"Graduation">>)
Postgraduation == Str(<<"Postgraduation">>)

RECURSIVE SumFloats(_)
SumFloats(cells) ==
  IF cells = <<>> THEN Zero ELSE FracAdd(Head(cells).v, SumFloats(Tail(cells)))

IsFloat(cell) == cell.t = "float"

\* the mean of a sequence of numbers; the mean of none is missing
Average(nums) ==
  IF nums = <<>> THEN NaN ELSE Float(FracDiv(SumFloats(nums), <<Len(nums), 1>>))

\* mean with the missing values taken as 0 (mutant of mean)
mean_countsMissing(cells) ==
  Average([i \in DOMAIN cells |-> IF IsFloat(cells[i]) THEN cells[i] ELSE Float(Zero)])

\* Series.mean() of a float64 column: missing values are skipped
mean(cells) == Average(SelectSeq(cells, IsFloat))

\* ', '.join(series.dropna()) of a column of texts
Joined(first, rest) == IF rest = <<>> THEN first ELSE first \o <<", ">> \o rest
RECURSIVE join(_)
join(cells) ==
  IF cells = <<>> THEN <<>>
  ELSE IF Head(cells).t = "nan" THEN join(Tail(cells))
  ELSE Joined(Head(cells).s, join(Tail(cells)))

Column(rows, c) == [i \in DOMAIN rows |-> rows[i][c]]

\* extracted_df[extracted_df['Level'].isin([...])], lines 89-91
InLevels(rows) ==
  LET Keep(r) == r[LevelCol] \in {Graduation, Postgraduation}
  IN  SelectSeq(rows, Keep)

\* the rows of one group of groupby('Level')
Group(rows, level) ==
  LET IsLevel(r) == r[LevelCol] = level
  IN  SelectSeq(rows, IsLevel)

\* the keys of groupby('Level'): the levels that have rows, sorted
GroupKeys(rows) ==
  LET HasRows(level) == \E i \in DOMAIN rows : rows[i][LevelCol] = level
  IN  SelectSeq(<<Graduation, Postgraduation>>, HasRows)

\* the aggregate of one column of one group, lines 93-100
Aggregate(rows, level, column_name) ==
  IF column_name = ResultCol THEN mean(Column(Group(rows, level), column_name))
  ELSE Str(join(Column(Group(rows, level), column_name)))

\* agg_data.get(level, np.nan), lines 100-104
agg_data(rows, keys, level) ==
  IF level \in Range(keys) THEN Aggregate(rows, level, ResultCol) ELSE NaN

\* lines 100-106, on grad_postgrad_df and its group keys
Summary(grad_postgrad_df, keys) ==
  [GraduationGPA |-> agg_data(grad_postgrad_df, keys, Graduation),
   PostgraduationGPA |-> agg_data(grad_postgrad_df, keys, Postgraduation),
   Affiliations |-> [i \in DOMAIN keys |-> Aggregate(grad_postgrad_df, keys[i], InstCol).s]]

\* lines 89-106, on the outcome of extract_gpa: its exception propagates
Aggregated(extracted_df) ==
  IF extracted_df.exc # "none" THEN Raise(extracted_df.exc)
  ELSE IF {LevelCol, InstCol, ResultCol} \ columns(extracted_df.val) # {}
  THEN Raise("KeyError")
  ELSE Return(Summary(InLevels(extracted_df.val.rows),
                      GroupKeys(InLevels(extracted_df.val.rows))))

\* get_grad_postgrad_data, lines 88-106
get_grad_postgrad_data(tables_dict) == Aggregated(extract_gpa(tables_dict[1], ResultCol))

(***************************************************************************)
(* Applicant text parser.  The document text is abstracted to the labelled *)
(* fields it holds: Name is a text or missing, a publication count is a    *)
(* natural number or -1 when its label is absent; a file name holds its    *)
(* submission digits (missing when it does not follow the convention) and  *)
(* whether it ends in ".pdf".                                              *)
(***************************************************************************)
\* extract_applicant_info, lines 66-82
extract_applicant_info(file) ==
  IF file.reader = "raise" THEN Raise("PdfReadError")
  ELSE Return([Name |-> file.text.Name,
               Publications_National |->
                 IF file.text.National < 0 THEN 0 ELSE file.text.National,
               Publications_International |->
                 IF file.text.International < 0 THEN 0 ELSE file.text.International,
               Submission |-> file.name.submission])

(***************************************************************************)
(* Batch loop.                                                             *)
(***************************************************************************)
\* the record main substitutes when tables_dict has no table_1, line 127
NoTableData == [GraduationGPA |-> NaN, PostgraduationGPA |-> NaN, Affiliations |-> <<>>]

\* lines 124-127
GradPostgradData(tables_dict) ==
  IF 1 \in DOMAIN tables_dict THEN get_grad_postgrad_data(tables_dict)
  ELSE Return(NoTableData)

\* line 129, on the outcome of lines 124-127
Combined(applicant_info, grad_postgrad_data) ==
  IF grad_postgrad_data.exc # "none" THEN Raise(grad_postgrad_data.exc)
  ELSE Return(grad_postgrad_data.val @@ applicant_info)

\* lines 123-129, on the outcome of extract_applicant_info
WithInfo(tables_dict, applicant_info) ==
  IF applicant_info.exc # "none" THEN Raise(applicant_info.exc)
  ELSE Combined(applicant_info.val, GradPostgradData(tables_dict))

\* lines 121-129, on the outcome of extract_tables_from_pdf
WithTables(file, tables_dict) ==
  IF tables_dict.exc # "none" THEN Raise(tables_dict.exc)
  ELSE WithInfo(tables_dict.val, extract_applicant_info(file))

\* the body of the try statement of main, lines 119-129: the record to append,
\* or the exception that reaches the except clause
process_file(file) ==
  IF file.tabula = "raise" THEN Raise("CalledProcessError")
  ELSE WithTables(file, extract_tables_from_pdf(file.tables))

(***************************************************************************)
(* Inputs of the checked instances.                                        *)
(***************************************************************************)
Alphabet == {"3", "4", "0", "/", ".", " ", "out", "of"}

\* every text of at most n tokens of the alphabet
Texts(n) == UNION {[1..k -> Alphabet] : k \in 0..n}

T35of4 == <<"3", ".", "5", " ", "out", " ", "of", " ", "4">>
T35s4 == <<"3", ".", "5", "/", "4">>
T70s100 == <<"7", "0", "/", "1", "0", "0">>
T7of10 == <<"7", "\n", "OUT", " ", "of", "\n", "1", "0">>
T7s10 == <<"7", "/", "1", "0">>
TNA == <<"N", "/", "A">>
T3s0 == <<"3", "/", "0">>
T5s4 == <<"5", "/", "4">>
T120s100 == <<"1", "2", "0", "/", "1", "0", "0">>
T35spaced == <<"3", ".", "5", " ", "/", " ", "4">>

Examples == {T35of4, T35s4, T70s100, T7of10, T7s10, TNA, T3s0, T5s4, T120s100, T35spaced}

F39 == Float(Frac(39, 10))
F50 == Float(Frac(5, 1))

NormCells == {Str(s) : s \in Texts(MaxLen) \cup Examples} \cup {F39, F50, NaN}

AcadCols == <<LevelCol, InstCol, ResultCol>>
AcadColsReordered == <<ResultCol, LevelCol, InstCol>>
AcadRow(level, inst, result) ==
  (LevelCol :> level) @@ (InstCol :> inst) @@ (ResultCol :> result)
MIT == Str(<<"MIT">>)
SSC == Str(<<"SSC">>)
OtherTable == Table(<<"Field", "Value">>,
                    <<("Field" :> Str(<<"Phone">>)) @@ ("Value" :> Str(<<"0", "1">>))>>)

AggResults == {Str(T35s4), Str(T7s10), Str(TNA), Str(T5s4), Str(T3s0), F39}
AggRows == {AcadRow(l, MIT, r) : l \in {Graduation, Postgraduation, SSC}, r \in AggResults}
AggTables ==
  {Table(AcadCols, rows) : rows \in UNION {[1..k -> AggRows] : k \in 0..MaxRows}}
    \cup {OtherTable}

MergeCols == {<<"A", "B">>, <<"B", "A">>, <<"A", "C">>, <<"C">>}
MergeRow(cols, tag) == [c \in Range(cols) |-> Str(<<tag>>)]
MergeTables ==
  {Table(cols, [i \in DOMAIN tags |-> MergeRow(cols, tags[i])]) :
     cols \in MergeCols, tags \in UNION {[1..k -> {"p", "q"}] : k \in 0..MaxPartRows}}
MergeInputs == UNION {[1..k -> MergeTables] : k \in 0..MaxTables}

Acad(cols, level, result) == Table(cols, <<AcadRow(level, MIT, result)>>)
MainTableLists ==
  { <<>>,
    <<Acad(AcadCols, Graduation, Str(T35s4))>>,
    <<Acad(AcadCols, Graduation, Str(T35s4)), OtherTable>>,
    <<Acad(AcadCols, Graduation, Str(T5s4)), OtherTable>>,
    <<Acad(AcadCols, Graduation, Str(T3s0)), OtherTable>>,
    <<Acad(AcadCols, Graduation, Str(T35s4)),
      Acad(AcadColsReordered, Postgraduation, Str(T7s10))>>,
    <<OtherTable, Acad(AcadCols, Graduation, Str(T35s4))>> }

FileName(pdf, submission) == [pdf |-> pdf, submission |-> submission]
Text(name, national) == [Name |-> name, National |-> national, International |-> -1]
File(name, tabula, tables, reader, text) ==
  [name |-> name, tabula |-> tabula, tables |-> tables, reader |-> reader, text |-> text]

NoText == Text(NaN, -1)
Texts2 == {NoText, Text(Str(<<"Jane", " ", "Doe">>), 3)}
PdfName == FileName(TRUE, Str(<<"4", "8", "2">>))
NoFile == File(FileName(FALSE, NaN), "ok", <<>>, "ok", NoText)

\* the directory entries main may meet
Entries ==
  {File(PdfName, "ok", ts, "ok", tx) : ts \in MainTableLists, tx \in Texts2}
    \cup {File(PdfName, "raise", <<>>, "ok", NoText),
          File(PdfName, "ok", <<Acad(AcadCols, Graduation, Str(T35s4)), OtherTable>>,
               "raise", NoText),
          File(FileName(FALSE, NaN), "ok", <<>>, "ok", NoText)}

NoCall == Raise("not called")
NoCsv == [writes |-> 0, rows |-> <<>>]

(***************************************************************************)
(* The batch: main, lines 112-136.                                         *)
(***************************************************************************)
Init ==
  /\ pc = "loop"
  /\ nfiles \in 0..MaxFiles
  /\ idx = 0
  /\ arg = NoFile
  /\ ret = NoCall
  /\ log = <<>>
  /\ all_results = <<>>
  /\ csv = NoCsv

\* an entry of os.listdir whose name does not end in ".pdf", line 115
SkipEntry ==
  /\ pc = "loop" /\ idx < nfiles
  /\ \E f \in Entries :
       /\ ~f.name.pdf
       /\ arg' = f
       /\ log' = Append(log, [file |-> f, error |-> "skipped"])
  /\ idx' = idx + 1
  /\ UNCHANGED <<pc, ret, nfiles, all_results, csv>>

\* the iteration without the try statement: an error leaves main (mutant of
\* ProcessFile)
ProcessFile_uncaught ==
  /\ pc = "loop" /\ idx < nfiles
  /\ \E f \in Entries :
       /\ f.name.pdf
       /\ arg' = f
       /\ ret' = process_file(f)
       /\ all_results' = IF ret'.exc = "none" THEN Append(all_results, ret'.val)
                         ELSE all_results
       /\ log' = Append(log, [file |-> f, error |-> ret'.exc])
       /\ pc' = IF ret'.exc = "none" THEN "loop" ELSE "raised"
  /\ idx' = idx + 1
  /\ UNCHANGED <<nfiles, csv>>

\* one iteration of the loop on a .pdf entry, lines 116-132
ProcessFile ==
  /\ pc = "loop" /\ idx < nfiles
  /\ \E f \in Entries :
       /\ f.name.pdf
       /\ arg' = f
       /\ ret' = process_file(f)
       /\ all_results' = IF ret'.exc = "none" THEN Append(all_results, ret'.val)
                         ELSE all_results
       /\ log' = Append(log, [file |-> f, error |-> ret'.exc])
  /\ idx' = idx + 1
  /\ UNCHANGED <<pc, nfiles, csv>>

\* after the loop, lines 134-136
WriteCsv ==
  /\ pc = "loop" /\ idx = nfiles
  /\ csv' = [writes |-> csv.writes + 1, rows |-> all_results]
  /\ pc' = "done"
  /\ UNCHANGED <<arg, ret, nfiles, idx, log, all_results>>

Next == SkipEntry \/ ProcessFile \/ WriteCsv

Spec == Init /\ [][Next]_vars

\* main is one sequential thread: it keeps taking steps until it returns
LiveSpec == Spec /\ WF_vars(Next)

(***************************************************************************)
(* The functions alone, each called once on an input of a bounded set.     *)
(***************************************************************************)
Idle == /\ nfiles = 0 /\ idx = 0 /\ log = <<>> /\ all_results = <<>> /\ csv = NoCsv

\* extract_gpa on a table whose Result column is the input: one cell of
\* NormCells, or several cells of AggResults
NormInputs ==
  {<<c>> : c \in NormCells} \cup UNION {[1..k -> AggResults] : k \in 2..MaxRows}

NormInit == pc = "call" /\ arg \in NormInputs /\ ret = NoCall /\ Idle

ResultTable(cells) == Table(<<ResultCol>>, [i \in DOMAIN cells |-> (ResultCol :> cells[i])])

CallExtractGpa ==
  /\ pc = "call"
  /\ ret' = extract_gpa(ResultTable(arg), ResultCol)
  /\ pc' = "returned"
  /\ UNCHANGED <<arg, nfiles, idx, log, all_results, csv>>

NormSpec == NormInit /\ [][CallExtractGpa]_vars

\* extract_tables_from_pdf on a list of raw tables
MergeInit == pc = "call" /\ arg \in MergeInputs /\ ret = NoCall /\ Idle

CallExtractTables ==
  /\ pc = "call"
  /\ ret' = extract_tables_from_pdf(arg)
  /\ pc' = "returned"
  /\ UNCHANGED <<arg, nfiles, idx, log, all_results, csv>>

MergeSpec == MergeInit /\ [][CallExtractTables]_vars

\* get_grad_postgrad_data on a table mapping whose table_1 is the input
AggInit == pc = "call" /\ arg \in AggTables /\ ret = NoCall /\ Idle

CallGetGradPostgradData ==
  /\ pc = "call"
  /\ ret' = get_grad_postgrad_data(<<arg>>)
  /\ pc' = "returned"
  /\ UNCHANGED <<arg, nfiles, idx, log, all_results, csv>>

AggSpec == AggInit /\ [][CallGetGradPostgradData]_vars

(***************************************************************************)
(* Claims.                                                                 *)
(***************************************************************************)
Returned == pc = "returned" /\ ret.exc = "none"

\* C1: given exactly two raw tables with equal column-label sets,
\* extract_tables_from_pdf returns a mapping of exactly one table, whose rows
\* are the first table's rows followed by the second's.  (Stated as claimed;
\* the code keeps table_2.)
C1_TwoEqualTablesBecomeOne ==
  (pc = "returned" /\ Len(arg) = 2 /\ columns(arg[1]) = columns(arg[2]))
    => /\ ret.exc = "none"
       /\ DOMAIN ret.val = {1}
       /\ ret.val[1].rows = arg[1].rows \o arg[2].rows

\* the tables after the first whose column-label set is table 1's, and the
\* others, as indices in extraction order
Continuations(tables) ==
  {i \in 2..Len(tables) : columns(tables[i]) = columns(tables[1])}
RECURSIVE RowsOf(_, _, _)
RowsOf(tables, from, keep) ==
  IF from > Len(tables) THEN <<>>
  ELSE (IF from \in keep THEN tables[from].rows ELSE <<>>) \o RowsOf(tables, from + 1, keep)
NewEntries(tables) ==
  LET IsNew(i) == i \notin Continuations(tables)
  IN  SelectSeq([i \in 1..Len(tables) |-> i], IsNew)

\* C2: whenever extract_tables_from_pdf returns, every table after the first
\* with table 1's column-label set has its rows appended in order to table 1,
\* every other table is a new entry under the next identifier, and the
\* identifiers are 1..k.  (Stated as claimed; the code looks at table_2 only
\* and keeps every raw table as an entry.)
C2_EveryContinuationAppended ==
  Returned =>
    LET new == NewEntries(arg)
    IN  /\ DOMAIN ret.val = 1..Len(new)
        /\ \A k \in 2..Len(new) : ret.val[k] = arg[new[k]]
        /\ Len(new) >= 1 =>
             ret.val[1].rows = RowsOf(arg, 1, {1} \cup Continuations(arg))

\* C3: extract_tables_from_pdf raises no error for any number of raw tables;
\* zero tables give the empty mapping and one table gives table 1 alone.
\* (Stated as claimed; the code reads table_1 and table_2 unconditionally.)
C3_NoErrorForAnyNumberOfTables ==
  pc = "returned" =>
    /\ ret.exc = "none"
    /\ Len(arg) = 0 => DOMAIN ret.val = {}
    /\ Len(arg) = 1 => DOMAIN ret.val = {1}

\* the entries of the log whose external table and text extraction succeeded
Extracted == {i \in DOMAIN log : /\ log[i].file.name.pdf
                                 /\ log[i].file.tabula = "ok"
                                 /\ log[i].file.reader = "ok"}
HasAcademicTable(file) ==
  /\ file.tables # <<>>
  /\ {LevelCol, InstCol, ResultCol} \subseteq columns(file.tables[1])

\* C4: in main, every .pdf file whose table and text extraction succeed
\* contributes exactly one record, also when no (academic-record) table was
\* extracted; that record then has undefined GPAs and no affiliation.
\* (Stated as claimed; such files raise KeyError and are skipped.)
C4_EveryExtractedFileGivesARecord ==
  /\ \A i \in Extracted : log[i].error = "none"
  /\ Len(all_results) = Cardinality(Extracted)
  /\ (idx > 0 /\ idx \in Extracted /\ ~HasAcademicTable(arg)) =>
       /\ ret.exc = "none"
       /\ ret.val.GraduationGPA = NaN
       /\ ret.val.PostgraduationGPA = NaN
       /\ ret.val.Affiliations = <<>>

InScale(gpa) == gpa.t = "nan" \/ (gpa.t = "float" /\ FracLe(Zero, gpa.v) /\ FracLe(gpa.v, Four))

\* C5: both GPA fields of every record main has appended are undefined or
\* lie in [0, 4.0].  (Stated as claimed; a score above its scale, as in
\* "5/4", gives a GPA above 4.)
C5_GpaWithinScale ==
  \A i \in DOMAIN all_results :
    InScale(all_results[i].GraduationGPA) /\ InScale(all_results[i].PostgraduationGPA)

\* C6: extract_gpa leaves every Result value that is already a number
\* unchanged, also in a column that mixes numbers with texts.  (Stated as
\* claimed; astype(str) turns the number into a text that matches no pattern.)
C6_NumericResultPassesThrough ==
  Returned =>
    \A i \in DOMAIN arg :
      arg[i].t = "float" => ret.val.rows[i][ResultCol] = arg[i]

\* s[a..b-1] is a number: digits with at most one ".", a digit first
IsNumber(s, a, b) ==
  /\ a < b /\ IsDigit(s[a])
  /\ \A k \in a..(b - 1) : IsDigit(s[k]) \/ s[k] = "."
  /\ Cardinality({k \in a..(b - 1) : s[k] = "."}) <= 1
AllWs(s, a, b) == \A k \in a..(b - 1) : IsWs(s[k])
\* s[b..c-1] is a separator: "/" or "out of", white space as the pattern allows
IsSeparator(s, b, c) ==
  \E w \in b..(c - 1) :
    /\ AllWs(s, b, w)
    /\ \/ s[w] = "/" /\ c = w + 1
       \/ /\ IsOut(s[w])
          /\ \E x \in (w + 2)..(c - 1) :
               AllWs(s, w + 1, x) /\ IsOf(s[x]) /\ AllWs(s, x + 1, c)
\* the places <<a, b, c, d>> where s reads <score> (out of | /) <scale>
Occurrences(s) ==
  LET P == 1..(Len(s) + 1)
  IN  {o \in P \X P \X P \X P :
         IsNumber(s, o[1], o[2]) /\ IsSeparator(s, o[2], o[3]) /\ IsNumber(s, o[3], o[4])}
\* what the claim C7 allows extract_gpa to put in place of the text s
Claimed(s, out) ==
  IF Occurrences(s) = {} THEN out = NaN
  ELSE \E o \in Occurrences(s) :
         LET score == ToFloat(s, <<o[1], o[2]>>)
             scale == ToFloat(s, <<o[3], o[4]>>)
         IN  IF scale = Four THEN out = Float(score)
             ELSE scale # Zero /\ out = Float(FracMul(FracDiv(score, scale), Four))

\* C7: for every text cell of the Result column, extract_gpa returns the
\* score when the text reads <score> (out of | /) <scale> with scale 4,
\* (score / scale) * 4 for any other scale, and undefined, without error,
\* when the text holds no such pattern.  (Stated as claimed; a scale of 0
\* raises ZeroDivisionError, the fault of C10.)
C7_ScoreScaleNormalization ==
  (pc = "returned" /\ \E i \in DOMAIN arg : arg[i].t = "str") =>
    /\ ret.exc = "none"
    /\ \A i \in DOMAIN arg :
         arg[i].t = "str" => Claimed(arg[i].s, ret.val.rows[i][ResultCol])

\* C7, second reading: the same for every call that returns; this is the
\* part of C7 the code satisfies
C7_WhenNoScaleIsZero ==
  (Returned /\ \E i \in DOMAIN arg : arg[i].t = "str") =>
    \A i \in DOMAIN arg :
      arg[i].t = "str" => Claimed(arg[i].s, ret.val.rows[i][ResultCol])

RECURSIVE SumAt(_, _)
SumAt(cells, at) ==
  IF at = {} THEN Zero
  ELSE LET i == CHOOSE i \in at : TRUE
       IN  FracAdd(cells[i].v, SumAt(cells, at \ {i}))

\* gpa is the mean of the defined values among cells[i], i in at
IsMeanAt(gpa, cells, at) ==
  LET defined == {i \in at : cells[i].t = "float"}
  IN  IF defined = {} THEN gpa = NaN
      ELSE /\ gpa.t = "float"
           /\ FracMul(gpa.v, Frac(Cardinality(defined), 1)) = SumAt(cells, defined)

\* C8: the two GPAs get_grad_postgrad_data returns are the means of the
\* defined normalized Result values of exactly the rows of level Graduation,
\* resp. Postgraduation; other rows and undefined Results do not count, and a
\* level with no defined Result gives undefined.
C8_GpaIsMeanOfLevelRows ==
  Returned =>
    LET normalized == Column(extract_gpa(arg, ResultCol).val.rows, ResultCol)
        RowsAt(level) == {i \in DOMAIN arg.rows : arg.rows[i][LevelCol] = level}
    IN  /\ IsMeanAt(ret.val.GraduationGPA, normalized, RowsAt(Graduation))
        /\ IsMeanAt(ret.val.PostgraduationGPA, normalized, RowsAt(Postgraduation))

\* C8, witness: a returned call on a table with a defined and an undefined
\* Graduation row and a defined row of another level
C8_Witness ==
  /\ Returned
  /\ Len(arg.rows) = 3
  /\ arg.rows[1] = AcadRow(Graduation, MIT, Str(T7s10))
  /\ arg.rows[2] = AcadRow(SSC, MIT, Str(T35s4))
  /\ arg.rows[3] = AcadRow(Graduation, MIT, Str(TNA))
  /\ ret.val.GraduationGPA = Float(Frac(14, 5))
  /\ ret.val.PostgraduationGPA = NaN

\* the .pdf entries of the log whose processing raised no error
Succeeded == {i \in DOMAIN log : log[i].error = "none"}
Failed == {i \in DOMAIN log : log[i].error \notin {"none", "skipped"}}

\* C9, each step of the loop: a failing file appends nothing and leaves the
\* collected records as they are, a file that does not fail appends one
\* record after them, the loop goes on, and the CSV is written only after the
\* last file
C9_Step ==
  /\ idx' = idx + 1 =>
       /\ pc' = "loop" /\ csv' = NoCsv
       /\ idx' \in Failed' => all_results' = all_results
       /\ idx' \in Succeeded' =>
            /\ Len(all_results') = Len(all_results) + 1
            /\ SubSeq(all_results', 1, Len(all_results)) = all_results
  /\ csv' # csv => idx = nfiles /\ csv = NoCsv

\* C9, the end of the batch: the CSV was written once, with one row per file
\* that did not fail
C9_End ==
  pc = "done" =>
    /\ idx = nfiles /\ Len(log) = nfiles
    /\ csv.writes = 1
    /\ Len(csv.rows) = Cardinality(Succeeded)
    /\ Len(csv.rows) + Cardinality(Failed) = Cardinality({i \in DOMAIN log : log[i].file.name.pdf})

\* C9: in main's loop an error in file N appends nothing for it, keeps the
\* records of files 1..N-1 and goes on with file N+1; whichever files fail,
\* the loop ends and the CSV is written exactly once, after the last file,
\* with one row per file that did not fail.
C9_FailureIsolatedAndBatchCompletes ==
  /\ [][C9_Step]_vars
  /\ []C9_End
  /\ <>(pc = "done")

\* C9, witness: a finished batch of three files, the second of which failed
C9_Witness ==
  /\ pc = "done" /\ nfiles = 3
  /\ Succeeded = {1, 3} /\ Failed = {2}
  /\ csv.writes = 1 /\ Len(csv.rows) = 2

\* C10: normalizing the Result column never makes a file's processing fail,
\* also for a text whose scale is 0.  (Stated as claimed; "3/0" raises
\* ZeroDivisionError and the file gives no record.)
C10_NormalizationNeverFailsAFile ==
  \A i \in DOMAIN log : log[i].error # "ZeroDivisionError"

====
